---- MODULE Spec2Model ----
(***************************************************************************)
(* Model of server/services/recursiveObjectionProofRewrite.ts:             *)
(* performRecursiveRewrite (the orchestrator), the process-wide            *)
(* iterationStore and its accessors getIteration, getIterationHistory and  *)
(* clearIterationStore.                                                    *)
(*                                                                         *)
(* JavaScript runs one operation at a time until it reaches an await; the  *)
(* variable `running` is the id of the operation that holds the thread (0  *)
(* when the event loop is idle).  Only at the awaits (the generation call, *)
(* the outline, chunk-reconstruction and stitching collaborators, and the  *)
(* pacing delay) can another operation or a registry call be interleaved.  *)
(*                                                                         *)
(* A text is abstracted to what the orchestrator reads of it: its number   *)
(* of words and whether it carries surrounding whitespace.  Collaborators  *)
(* that fail throw an Error object (a value with a message property).      *)
(***************************************************************************)
EXTENDS Integers, Sequences, FiniteSets, TLC

\* ---------------------------------------------------------------- bounds
MaxOps == 2
MaxChunks == 2

\* ------------------------------------------------------ program constants
SHORT_TEXT_THRESHOLD == 1500
PacingDelayMs == 1500

\* ------------------------------------------------------------ value space
NoId == 0
Ids == 1..MaxOps
\* an id string that uuidv4 never issued (a caller-supplied parent id that
\* names nothing)
UnknownId == MaxOps + 1

Text(w, p) == [words |-> w, pad |-> p]
EmptyText == Text(0, FALSE)

\* String.prototype.trim
Trim(t) == Text(t.words, FALSE)

countWords(text) == text.words


\* a number that is absent (undefined or null): request.targetWordCount when
\* the caller gave none, a bound of the window that is left unresolved
NoNumber == -1

\* what parseTargetLength returns: a window, or null
Window(lo, hi) == [targetMin |-> lo, targetMax |-> hi]
NoParsed == Window(NoNumber, NoNumber)

NoSkeleton == "null"
Skeleton == "skeleton"


NoIteration == [id |-> NoId, parentId |-> NoId, version |-> 0,
                inputText |-> EmptyText, outputText |-> EmptyText,
                wordCount |-> 0, globalSkeleton |-> NoSkeleton,
                status |-> "none"]

NoResult == [returned |-> FALSE, success |-> FALSE, inputWords |-> 0,
             outputWords |-> 0, chunksProcessed |-> 0,
             coherenceScore |-> "", error |-> ""]

NoStitch == [finalOutput |-> EmptyText, hasStitchResult |-> FALSE,
             contradictions |-> 0]

NoFrame == [pc |-> "idle", text |-> EmptyText, parentIterationId |-> NoId,
            targetWordCount |-> NoNumber,
            observer |-> FALSE, inputWords |-> 0, targetMid |-> 0,
            chunks |-> <<>>, numChunks |-> 0, i |-> 0,
            processedChunks |-> <<>>, runningWordCount |-> 0,
            stitch |-> NoStitch]

\* One entry of the record of what an operation has done: kind is "call"
\* (a callee is entered), "return" (an awaited callee or smartChunk hands
\* back arg), "throw" (the callee named throws) or "notify" (the observer is
\* entered with the phase named), "request" (what the caller asked for) or
\* "register" (the iteration is put in the store).
Ev(kind, name, index, total, budget, arg) ==
    [kind |-> kind, name |-> name, index |-> index, total |-> total,
     budget |-> budget, arg |-> arg]

VARIABLES
    iterationStore,   \* key -> reference to an iteration object
    iteration,        \* the iteration objects, by the operation that made them
    frame,            \* each operation's locals and position
    result,           \* what each operation returned
    calls,            \* per operation: the notifications and collaborator calls made
    running,          \* the operation executing synchronously, or 0
    nextId            \* the next id uuidv4 hands out

vars == <<iterationStore, iteration, frame, result, calls, running, nextId>>

\* ------------------------------------------------------------- registry
\* getIteration(id): iterationStore[id] || null
getIteration(id) ==
    IF id \in DOMAIN iterationStore THEN iteration[iterationStore[id]]
    ELSE NoIteration

Registered(id) == id \in DOMAIN iterationStore

StorePutAlone(store, id) == [k \in {id} |-> id]
StorePut(store, id) ==
    [k \in (DOMAIN store) \cup {id} |-> IF k = id THEN id ELSE store[k]]

Init ==
    /\ iterationStore = << >>
    /\ iteration = [p \in Ids |-> NoIteration]
    /\ frame = [p \in Ids |-> NoFrame]
    /\ result = [p \in Ids |-> NoResult]
    /\ calls = [p \in Ids |-> << >>]
    /\ running = 0
    /\ nextId = 1

\* ------------------------------------------------------------- helpers
SeqsUpTo(S, n) == UNION {[1..k -> S] : k \in 0..n}

\* what stitchAndValidate can resolve to: a final text with a contradiction
\* list of the given length, or (when malformed) an object whose
\* stitchResult is missing
StitchValues(texts, lengths, malformed) ==
    {[finalOutput |-> t, hasStitchResult |-> TRUE, contradictions |-> c] :
        t \in texts, c \in lengths}
    \cup {[finalOutput |-> t, hasStitchResult |-> FALSE, contradictions |-> 0] :
        t \in (IF malformed THEN texts ELSE {})}

\* The callers and collaborators an operation runs against: the requests
\* callers make and the values the collaborators of ./crossChunkCoherence
\* and the generation service hand back.  `trace` says whether the calls an
\* operation makes are recorded.
\*
\* Interleaved: several operations in flight at once, one value per
\* collaborator answer, the chunker returning as many chunks as the bound
\* allows.
Interleaved ==
    [ops |-> Ids,
     words |-> {1499, 1500},
     parents |-> {NoId, UnknownId} \cup Ids,
     targets |-> {NoNumber},
     observers |-> {TRUE},
     parsed |-> {NoParsed},
     targetMids |-> {10},
     chunkLists |-> {[k \in 1..n |-> Text(800, FALSE)] : n \in {MaxChunks}},
     generated |-> {Text(5, TRUE)},
     outputs |-> {Text(5, TRUE)},
     stitches |-> StitchValues({Text(5, TRUE)}, {0}, TRUE),
     errors |-> {"collaborator failed"},
     trace |-> FALSE]

\* Single: one operation on an empty registry, with varied requests and
\* collaborator answers and a record of every call made.
Single ==
    [ops |-> {1},
     words |-> {100, 1499, 1500, 5000},
     parents |-> {NoId, UnknownId} \cup Ids,
     targets |-> {NoNumber},
     observers |-> BOOLEAN,
     parsed |-> {NoParsed},
     targetMids |-> {7, 10, 3000},
     chunkLists |-> SeqsUpTo({Text(300, FALSE), Text(800, FALSE)}, MaxChunks),
     generated |-> {Text(3, TRUE), Text(5, FALSE), EmptyText},
     outputs |-> {Text(3, TRUE), Text(5, FALSE)},
     stitches |-> StitchValues({Text(3, TRUE), Text(5, FALSE)}, {0, 2}, TRUE),
     errors |-> {"", "collaborator failed"},
     trace |-> TRUE]

\* Lengths: one operation, with every kind of length request: no target, a
\* target of 0, 7 or 3000 words, and instructions that parse to nothing, to a
\* window, or to a window whose lower bound is 0.
Lengths ==
    [ops |-> {1},
     words |-> {100, 5000},
     parents |-> {NoId, UnknownId} \cup Ids,
     targets |-> {NoNumber, 0, 7, 3000},
     observers |-> {FALSE},
     parsed |-> {NoParsed, Window(90, 110), Window(0, 500)},
     targetMids |-> {10},
     chunkLists |-> {[k \in 1..n |-> Text(800, FALSE)] : n \in {MaxChunks}},
     generated |-> {Text(5, TRUE)},
     outputs |-> {Text(5, TRUE)},
     stitches |-> StitchValues({Text(5, TRUE)}, {0}, FALSE),
     errors |-> {"collaborator failed"},
     trace |-> TRUE]

\* Scheduled: the operations of Interleaved, each one a root
Scheduled == [Interleaved EXCEPT !.parents = {NoId}]

SetFrame(p, f) == [frame EXCEPT ![p] = f]

Log(env, p, es) == IF env.trace THEN [calls EXCEPT ![p] = @ \o es] ELSE calls

Call(name) == Ev("call", name, 0, 0, 0, << >>)
Returns(name) == Ev("return", name, 0, 0, 0, << >>)

\* onProgress?.(phase, ...): nothing happens when no observer was supplied
Notification(p, phase) ==
    IF frame[p].observer THEN <<Ev("notify", phase, 0, 0, 0, << >>)>> ELSE << >>

\* the locals are gone once the call has returned
Returned == [NoFrame EXCEPT !.pc = "done"]

\* lines 201-205
FailureResultAsSuccess(msg) ==
    [returned |-> TRUE, success |-> TRUE, inputWords |-> 0, outputWords |-> 0,
     chunksProcessed |-> 0, coherenceScore |-> "",
     error |-> IF msg # "" THEN msg ELSE "Processing failed"]
FailureResult(msg) ==
    [returned |-> TRUE, success |-> FALSE, inputWords |-> 0, outputWords |-> 0,
     chunksProcessed |-> 0, coherenceScore |-> "",
     error |-> IF msg # "" THEN msg ELSE "Processing failed"]

\* lines 197-198
Failed(it) == [it EXCEPT !.status = "failed", !.outputText = EmptyText]

\* lines 195-205: the catch clause, reached with the iteration object as
\* the try block left it (it) and the thrown error's message
CatchDeleting(p, it, msg) ==
    /\ iteration' = [iteration EXCEPT ![p] = Failed(it)]
    /\ iterationStore' = [k \in (DOMAIN iterationStore) \ {p} |-> iterationStore[k]]
    /\ result' = [result EXCEPT ![p] = FailureResult(msg)]
    /\ frame' = SetFrame(p, Returned)
    /\ running' = 0
Catch(p, it, msg) ==
    /\ iteration' = [iteration EXCEPT ![p] = Failed(it)]
    /\ iterationStore' = StorePut(iterationStore, p)
    /\ result' = [result EXCEPT ![p] = FailureResult(msg)]
    /\ frame' = SetFrame(p, Returned)
    /\ running' = 0

\* the callee named throws after the operation made the calls es
Throws(env, p, it, es, name) ==
    /\ \E msg \in env.errors : Catch(p, it, msg)
    /\ calls' = Log(env, p, es \o <<Ev("throw", name, 0, 0, 0, << >>)>>)

\* the observer throws at its notification of `phase`, made after the calls es
ObserverThrowsUncaught(env, p, it, es, phase) ==
    /\ frame[p].observer
    /\ iteration' = [iteration EXCEPT ![p] = it]
    /\ frame' = SetFrame(p, Returned)
    /\ calls' = Log(env, p, es \o Notification(p, phase)
                               \o <<Ev("throw", "onProgress", 0, 0, 0, << >>)>>)
    /\ running' = 0
    /\ UNCHANGED <<iterationStore, result>>
ObserverThrows(env, p, it, es, phase) ==
    /\ frame[p].observer
    /\ Throws(env, p, it, es \o Notification(p, phase), "onProgress")

\* the operation suspends at an await with iteration object it and locals
\* f, having made the calls es
Awaits(env, p, it, f, es) ==
    /\ iteration' = [iteration EXCEPT ![p] = it]
    /\ frame' = SetFrame(p, f)
    /\ calls' = Log(env, p, es)
    /\ running' = 0
    /\ UNCHANGED <<iterationStore, result>>

\* the operation carries on synchronously with locals f
Continues(env, p, f, es) ==
    /\ frame' = SetFrame(p, f)
    /\ calls' = Log(env, p, es)
    /\ running' = p

\* Math.ceil(a / b) for integers a >= 0, b > 0
CeilDiv(a, b) == (a + b - 1) \div b

\* ---------------------------------------------- performRecursiveRewrite
\* the parent ids a caller can pass: none, a string that names nothing, or
\* the id of an iteration a finished call handed back (an iteration's id
\* leaves the operation only in the result it returns)
ParentChoicesWithOwnId == {NoId, UnknownId, nextId}
ParentChoices == {NoId, UnknownId} \cup {k \in Ids : result[k].returned}

\* lines 60-62
NewVersionIgnoringParent(parentIterationId) == 1
NewVersionOfParent(parentIterationId) ==
    IF parentIterationId # NoId /\ Registered(parentIterationId)
    THEN getIteration(parentIterationId).version
    ELSE 1
NewVersion(parentIterationId) ==
    IF parentIterationId # NoId
    THEN (IF Registered(parentIterationId)
          THEN getIteration(parentIterationId).version ELSE 0) + 1
    ELSE 1

\* lines 54-73: the iteration object is built and registered
Start(p, env) ==
    /\ running = 0
    /\ p = nextId
    /\ p \in env.ops
    /\ frame[p].pc = "idle"
    /\ \E w \in env.words, parent \in ParentChoices \cap env.parents,
          obs \in env.observers,
          t \in env.targets :
         LET text == Text(w, FALSE)
             inputWords == countWords(text)
         IN /\ iteration' = [iteration EXCEPT ![p] =
                   [id |-> p, parentId |-> parent,
                    version |-> NewVersion(parent),
                    inputText |-> text, outputText |-> EmptyText,
                    wordCount |-> inputWords,
                    globalSkeleton |-> NoSkeleton,
                    status |-> "processing"]]
            /\ frame' = SetFrame(p, [NoFrame EXCEPT !.pc = "begin",
                   !.text = text, !.parentIterationId = parent,
                   !.targetWordCount = t,
                   !.observer = obs, !.inputWords = inputWords])
            /\ calls' = Log(env, p,
                   <<Ev("request", "targetWordCount", 0, 0, t, << >>),
                     Ev("register", "iterationStore", 0, 0, 0, << >>)>>)
    /\ iterationStore' = StorePut(iterationStore, p)
    /\ nextId' = nextId + 1
    /\ running' = p
    /\ UNCHANGED <<result>>

\* line 95
IsShortAtThreshold(inputWords) == inputWords <= SHORT_TEXT_THRESHOLD
IsShortInverted(inputWords) == inputWords > SHORT_TEXT_THRESHOLD
IsShort(inputWords) == inputWords < SHORT_TEXT_THRESHOLD

\* lines 95-97 and 214-235: the short path up to the generation request
StartShortText(env, p, f, es) ==
    \/ ObserverThrows(env, p, iteration[p], es, "processing")
    \/ Awaits(env, p, iteration[p], [f EXCEPT !.pc = "awaitGenerate"],
              es \o Notification(p, "processing")
              \o <<Ev("call", "messages.create", 0, 0, f.targetMid, << >>)>>)

\* lines 120-126: the chunked path up to the outline collaborator
StartSkeleton(env, p, f, es) ==
    \/ ObserverThrows(env, p, iteration[p], es, "skeleton")
    \/ Awaits(env, p, iteration[p], [f EXCEPT !.pc = "awaitSkeleton"],
              es \o Notification(p, "skeleton")
              \o <<Call("extractGlobalSkeleton")>>)

\* a number that JavaScript takes for true: present and not 0
Truthy(n) == n # NoNumber /\ n # 0

\* Math.round(t * tenths / 10) for an integer t: the nearest integer, a half
\* going up (t * 0.9 and t * 1.1 as doubles round the same way, the doubles
\* 0.9 and 1.1 lying just above the decimals)
RoundTenthsDown(t, tenths) == (t * tenths) \div 10
RoundTenths(t, tenths) == (t * tenths + 5) \div 10

\* lines 79-84: the window handed to calculateLengthConfig
TargetWindow(targetWordCount, parsedTarget) ==
    Window(IF Truthy(targetWordCount) THEN RoundTenths(targetWordCount, 9)
           ELSE IF Truthy(parsedTarget.targetMin) THEN parsedTarget.targetMin
           ELSE NoNumber,
           IF Truthy(targetWordCount) THEN RoundTenths(targetWordCount, 11)
           ELSE IF Truthy(parsedTarget.targetMax) THEN parsedTarget.targetMax
           ELSE NoNumber)

\* lines 76-126: from the first notification to the first await
Begin(p, env) ==
    LET initializing == Notification(p, "initializing")
        parsing == initializing \o <<Call("parseTargetLength")>>
    IN
    /\ running = p
    /\ frame[p].pc = "begin"
    /\ \/ ObserverThrows(env, p, iteration[p], << >>, "initializing")
       \/ Throws(env, p, iteration[p], parsing, "parseTargetLength")
       \/ \E parsedTarget \in env.parsed :
            LET window == TargetWindow(frame[p].targetWordCount, parsedTarget)
                resolving ==
                    parsing
                    \o <<Ev("return", "parseTargetLength", 0, 0, 0, <<parsedTarget>>),
                         Ev("call", "calculateLengthConfig", 0, 0, 0, <<window>>)>>
            IN
            \/ Throws(env, p, iteration[p], resolving, "calculateLengthConfig")
            \/ \E mid \in env.targetMids :
                 LET f == [frame[p] EXCEPT !.targetMid = mid]
                     es == resolving
                           \o <<Ev("return", "calculateLengthConfig", 0, 0, mid,
                                   << >>)>>
                 IN IF IsShort(f.inputWords)
                    THEN StartShortText(env, p, f, es)
                    ELSE StartSkeleton(env, p, f, es)
    /\ UNCHANGED nextId

\* lines 108-117
ShortResult(p, it) ==
    [returned |-> TRUE, success |-> TRUE, inputWords |-> frame[p].inputWords,
     outputWords |-> it.wordCount, chunksProcessed |-> 1,
     coherenceScore |-> "short-text", error |-> ""]

\* lines 235-245 and 103-117: the generation request settles; a response
\* whose first content item is not text gives the empty string
GenerateReturn(p, env) ==
    /\ running = 0
    /\ frame[p].pc = "awaitGenerate"
    /\ \/ Throws(env, p, iteration[p], << >>, "messages.create")
       \/ \E generated \in env.generated :
            LET output == Trim(generated)
                it == [iteration[p] EXCEPT !.outputText = output,
                                           !.wordCount = countWords(output),
                                           !.status = "completed"]
            IN /\ iteration' = [iteration EXCEPT ![p] = it]
               /\ iterationStore' = StorePut(iterationStore, p)
               /\ result' = [result EXCEPT ![p] = ShortResult(p, it)]
               /\ frame' = SetFrame(p, Returned)
               /\ calls' = Log(env, p, <<Ev("return", "messages.create", 0, 0, 0,
                                            <<generated>>)>>)
               /\ UNCHANGED running
    /\ UNCHANGED nextId

\* line 140
chunkTargetWordsOfRemaining(f) ==
    CeilDiv(f.targetMid - f.runningWordCount, f.numChunks - f.i)
chunkTargetWords(f) == CeilDiv(f.targetMid, f.numChunks)

\* lines 139-158: the notification and the call for chunk i, with the
\* iteration object it and locals f, after the calls es
ProcessChunk(env, p, it, f, es) ==
    \/ ObserverThrows(env, p, it, es, "processing")
    \/ Awaits(env, p, it, [f EXCEPT !.pc = "awaitChunk"],
              es \o Notification(p, "processing")
              \o <<Ev("call", "reconstructChunkConstrained", f.i, f.numChunks,
                      chunkTargetWords(f), <<f.chunks[f.i + 1]>>)>>)

\* lines 172-176: after the loop, the notification and the stitching call
StartStitch(env, p, it, f, es) ==
    \/ ObserverThrows(env, p, it, es, "stitching")
    \/ Awaits(env, p, it, [f EXCEPT !.pc = "awaitStitch"],
              es \o Notification(p, "stitching")
              \o <<Ev("call", "stitchAndValidate", 0, 0, 0, f.processedChunks)>>)

\* line 138: the loop test i < chunks.length
Loop(env, p, it, f, es) ==
    IF f.i < Len(f.chunks)
    THEN ProcessChunk(env, p, it, f, es)
    ELSE StartStitch(env, p, it, f, es)

\* lines 121-138: the outline collaborator settles, then smartChunk, which
\* is synchronous, then the loop is entered
SkeletonReturn(p, env) ==
    LET skeleton == <<Returns("extractGlobalSkeleton")>>
        chunking == skeleton \o Notification(p, "chunking")
        it == [iteration[p] EXCEPT !.globalSkeleton = Skeleton]
    IN
    /\ running = 0
    /\ frame[p].pc = "awaitSkeleton"
    /\ \/ Throws(env, p, iteration[p], << >>, "extractGlobalSkeleton")
       \/ ObserverThrows(env, p, it, skeleton, "chunking")
       \/ Throws(env, p, it, chunking \o <<Call("smartChunk")>>, "smartChunk")
       \/ \E chunks \in env.chunkLists :
            Loop(env, p, it,
                 [frame[p] EXCEPT !.chunks = chunks, !.numChunks = Len(chunks),
                      !.i = 0, !.processedChunks = << >>,
                      !.runningWordCount = 0],
                 chunking \o <<Call("smartChunk"),
                     Ev("return", "smartChunk", 0, Len(chunks), 0, chunks)>>)
    /\ UNCHANGED nextId

\* lines 160-163
PushFront(processedChunks, item) == <<item>> \o processedChunks
Push(processedChunks, item) == Append(processedChunks, item)

\* line 167
DelayAfterEvery(f) == TRUE
DelayAfter(f) == f.i < Len(f.chunks) - 1

\* line 138, the loop increment
NextIndexRestart(f) ==
    [f EXCEPT !.i = 0, !.processedChunks = << >>, !.runningWordCount = 0]
NextIndex(f) == [f EXCEPT !.i = @ + 1]

\* lines 149-169: chunk i's reconstruction settles; before the last chunk
\* the pacing delay starts, after it the loop ends
ChunkReturn(p, env) ==
    /\ running = 0
    /\ frame[p].pc = "awaitChunk"
    /\ \/ Throws(env, p, iteration[p], << >>, "reconstructChunkConstrained")
       \/ \E outputText \in env.outputs :
            LET item == [text |-> outputText, delta |-> frame[p].i]
                f == [frame[p] EXCEPT
                        !.processedChunks = Push(@, item),
                        !.runningWordCount = @ + countWords(outputText)]
                returned == <<Ev("return", "reconstructChunkConstrained",
                                 frame[p].i, 0, 0, <<item>>)>>
            IN IF DelayAfter(f)
               THEN Awaits(env, p, iteration[p], [f EXCEPT !.pc = "awaitDelay"],
                           returned \o <<Ev("call", "setTimeout", f.i, 0,
                                            PacingDelayMs, << >>)>>)
               ELSE Loop(env, p, iteration[p], NextIndex(f), returned)
    /\ UNCHANGED nextId

\* lines 168-170 and 138-158: the pacing delay ends and the next chunk starts
DelayReturn(p, env) ==
    /\ running = 0
    /\ frame[p].pc = "awaitDelay"
    /\ Loop(env, p, iteration[p], NextIndex(frame[p]), <<Returns("setTimeout")>>)
    /\ UNCHANGED nextId

\* lines 173-183: the stitching collaborator settles; after the last
\* notification the iteration is marked completed and stored
StitchReturn(p, env) ==
    /\ running = 0
    /\ frame[p].pc = "awaitStitch"
    /\ \/ Throws(env, p, iteration[p], << >>, "stitchAndValidate")
       \/ \E st \in env.stitches :
            ObserverThrows(env, p, iteration[p],
                <<Ev("return", "stitchAndValidate", 0, 0, 0, <<st>>)>>, "finalizing")
       \/ \E st \in env.stitches :
            /\ iteration' = [iteration EXCEPT ![p] =
                   [@ EXCEPT !.outputText = st.finalOutput,
                             !.wordCount = countWords(st.finalOutput),
                             !.status = "completed"]]
            /\ iterationStore' = StorePut(iterationStore, p)
            /\ Continues(env, p, [frame[p] EXCEPT !.pc = "return", !.stitch = st],
                         <<Ev("return", "stitchAndValidate", 0, 0, 0, <<st>>)>>
                         \o Notification(p, "finalizing"))
            /\ UNCHANGED result
    /\ UNCHANGED nextId

\* line 192
coherenceScore(st) == IF st.contradictions = 0 THEN "pass" ELSE "needs_review"

\* line 191
chunksProcessed(p) == frame[p].numChunks

\* lines 185-194: reading stitchResult.contradictions throws a TypeError
\* when stitchResult is missing
ReturnResult(p, env) ==
    /\ running = p
    /\ frame[p].pc = "return"
    /\ IF frame[p].stitch.hasStitchResult
       THEN /\ result' = [result EXCEPT ![p] =
                  [returned |-> TRUE, success |-> TRUE,
                   inputWords |-> frame[p].inputWords,
                   outputWords |-> iteration[p].wordCount,
                   chunksProcessed |-> chunksProcessed(p),
                   coherenceScore |-> coherenceScore(frame[p].stitch),
                   error |-> ""]]
            /\ frame' = SetFrame(p, Returned)
            /\ running' = 0
            /\ UNCHANGED <<iterationStore, iteration, calls>>
       ELSE /\ Catch(p, iteration[p], "Cannot read properties of undefined")
            /\ calls' = Log(env, p, <<Ev("throw", "stitchResult.contradictions",
                                         0, 0, 0, << >>)>>)
    /\ UNCHANGED nextId

\* ------------------------------------------------- getIterationHistory
\* line 260: history.unshift(current)
UnshiftAtEnd(history, it) == Append(history, it)
Unshift(history, it) == <<it>> \o history

\* lines 259-266: the while loop; current is the key whose entry was read
\* (undefined, and the loop over, when the key is not registered)
RECURSIVE Walk(_, _)
Walk(history, current) ==
    IF ~Registered(current)
    THEN history
    ELSE LET it == getIteration(current)
             h == Unshift(history, it)
         IN IF it.parentId # NoId THEN Walk(h, it.parentId) ELSE h

\* lines 253-269
getIterationHistory(currentId) == Walk(<< >>, currentId)

\* ------------------------------------------------- clearIterationStore
\* lines 271-273
clearIterationStore ==
    /\ running = 0
    /\ DOMAIN iterationStore # {}
    /\ iterationStore' = << >>
    /\ UNCHANGED <<iteration, frame, result, calls, running, nextId>>

\* --------------------------------------------------------- specification
Step(p, env) ==
    \/ Start(p, env)
    \/ Begin(p, env)
    \/ GenerateReturn(p, env)
    \/ SkeletonReturn(p, env)
    \/ ChunkReturn(p, env)
    \/ DelayReturn(p, env)
    \/ StitchReturn(p, env)
    \/ ReturnResult(p, env)

\* operations interleaving at their awaits, and registry clears between them
Next ==
    \/ \E p \in Ids : Step(p, Interleaved)
    \/ clearIterationStore

Spec == Init /\ [][Next]_vars

\* what the event loop does for a started operation: it runs its synchronous
\* code and resumes it when the call or delay it awaits has settled
Resume(p) ==
    \/ Begin(p, Scheduled)
    \/ GenerateReturn(p, Scheduled)
    \/ SkeletonReturn(p, Scheduled)
    \/ ChunkReturn(p, Scheduled)
    \/ DelayReturn(p, Scheduled)
    \/ StitchReturn(p, Scheduled)
    \/ ReturnResult(p, Scheduled)

\* operations interleaving at their awaits, and registry clears between them
NextScheduled ==
    \/ \E p \in Ids : Step(p, Scheduled)
    \/ clearIterationStore

\* every awaited call and delay settles, and every operation that can run
\* is run; callers need not start operations or clear the registry
FairSpec == Init /\ [][NextScheduled]_vars /\ \A p \in Ids : WF_vars(Resume(p))

\* one operation, every request and collaborator answer, calls recorded
NextSingle ==
    \/ \E p \in Ids : Step(p, Single)
    \/ clearIterationStore

SingleSpec == Init /\ [][NextSingle]_vars

\* one operation, every kind of length request
NextLength ==
    \/ \E p \in Ids : Step(p, Lengths)
    \/ clearIterationStore

LengthSpec == Init /\ [][NextLength]_vars

\* ===================================================================
\* Properties
\* ===================================================================
PipelineCallees == {"extractGlobalSkeleton", "smartChunk",
                    "reconstructChunkConstrained", "stitchAndValidate"}

IsEv(e, kind, name) == e.kind = kind /\ e.name = name

\* the positions of the record of p that hold an event of this kind and name
At(p, kind, name) == {k \in 1..Len(calls[p]) : IsEv(calls[p][k], kind, name)}

Count(p, kind, name) == Cardinality(At(p, kind, name))

Created(p) == iteration[p].status # "none"

\* -------------------------------------------------------------------
\* C1: an iteration's status starts at 'processing' and changes at most
\* once, to 'completed' or 'failed'; a terminal status never changes and
\* 'processing' is never re-entered.
C1_StatusChangesAtMostOnce ==
    [][\A p \in Ids :
         /\ (~Created(p) /\ Created(p)' => iteration'[p].status = "processing")
         /\ (iteration[p].status = "processing"
               => iteration'[p].status \in {"processing", "completed", "failed"})
         /\ (iteration[p].status \in {"completed", "failed"}
               => iteration'[p].status = iteration[p].status)]_vars

\* -------------------------------------------------------------------
\* C2: when the outline, chunking, a chunk reconstruction or the stitching
\* collaborator throws, the call returns success = false with the iteration
\* failed and its outputText empty, whatever chunks were rewritten before,
\* and nothing is called after the failure.
PipelineThrows(p) ==
    {k \in 1..Len(calls[p]) :
        calls[p][k].kind = "throw" /\ calls[p][k].name \in PipelineCallees}

C2_PipelineFailureFailsTheCall ==
    \A p \in Ids : \A k \in PipelineThrows(p) :
        /\ result[p].returned
        /\ result[p].success = FALSE
        /\ iteration[p].status = "failed"
        /\ iteration[p].outputText = EmptyText
        /\ k = Len(calls[p])

\* chunk 1 threw after chunk 0 had been rewritten
C2_Witness ==
    \E p \in Ids : \E k \in PipelineThrows(p) :
        /\ calls[p][k].name = "reconstructChunkConstrained"
        /\ Count(p, "return", "reconstructChunkConstrained") = 1
        /\ result[p].returned

\* -------------------------------------------------------------------
\* C3: a successful call on 1500 words or more reports chunksProcessed = the
\* length of the list smartChunk returned, and coherenceScore 'pass' exactly
\* when the stitcher's contradiction list is empty, else 'needs_review'.
C3_ChunkedStats ==
    \A p \in Ids :
        (result[p].returned /\ result[p].success
         /\ countWords(iteration[p].inputText) >= 1500)
        => /\ \E k \in At(p, "return", "smartChunk") :
                result[p].chunksProcessed = Len(calls[p][k].arg)
           /\ \E k \in At(p, "return", "stitchAndValidate") :
                IF calls[p][k].arg[1].contradictions = 0
                THEN result[p].coherenceScore = "pass"
                ELSE result[p].coherenceScore = "needs_review"

\* exactly 1500 words, two chunks, contradictions found
C3_Witness ==
    \E p \in Ids :
        /\ result[p].returned /\ result[p].success
        /\ countWords(iteration[p].inputText) = 1500
        /\ result[p].chunksProcessed = 2
        /\ result[p].coherenceScore = "needs_review"

\* -------------------------------------------------------------------
\* C4 as stated: a call on fewer than 1500 words issues exactly one
\* generation request, never calls the outline, chunking, reconstruction or
\* stitching collaborators, and when the request succeeds returns status
\* 'completed', chunksProcessed = 1, coherenceScore = 'short-text'.
ShortInput(p) == Created(p) /\ countWords(iteration[p].inputText) < 1500

NoPipelineCall(p) ==
    \A k \in 1..Len(calls[p]) : calls[p][k].name \notin PipelineCallees

GenerationSucceeded(p) == Count(p, "return", "messages.create") = 1

ShortSuccess(p) ==
    GenerationSucceeded(p)
    => /\ result[p].returned /\ result[p].success
       /\ iteration[p].status = "completed"
       /\ result[p].chunksProcessed = 1
       /\ result[p].coherenceScore = "short-text"

C4_ExactlyOneGeneration ==
    \A p \in Ids :
        (ShortInput(p) /\ result[p].returned)
        => /\ Count(p, "call", "messages.create") = 1
           /\ NoPipelineCall(p)
           /\ ShortSuccess(p)

\* C4 amended: a call on fewer than 1500 words issues at most one generation
\* request -- exactly one unless the observer, parseTargetLength or
\* calculateLengthConfig throws before the rewriter is reached -- never calls
\* the outline, chunking, reconstruction or stitching collaborators, and when
\* the request succeeds returns status 'completed', chunksProcessed = 1,
\* coherenceScore = 'short-text'.
ThrewBeforeRewriter(p) ==
    \E k \in 1..Len(calls[p]) :
        /\ calls[p][k].kind = "throw"
        /\ calls[p][k].name \in {"onProgress", "parseTargetLength",
                                 "calculateLengthConfig"}

C4_ShortTextPath ==
    \A p \in Ids :
        ShortInput(p)
        => /\ Count(p, "call", "messages.create") <= 1
           /\ (result[p].returned =>
                 (Count(p, "call", "messages.create") = 1
                    <=> ~ThrewBeforeRewriter(p)))
           /\ NoPipelineCall(p)
           /\ ShortSuccess(p)

\* 1499 words, the one request succeeded
C4_Witness ==
    \E p \in Ids :
        /\ countWords(iteration[p].inputText) = 1499
        /\ GenerationSucceeded(p)
        /\ result[p].returned /\ result[p].success

Chain(id) ==
    LET h == getIterationHistory(id)
    IN /\ Len(h) >= 1
       /\ h[Len(h)].id = id
       /\ \A k \in 1..(Len(h) - 1) : h[k + 1].parentId = h[k].id

TwoGenerations(id) ==
    LET h == getIterationHistory(id)
        it == getIteration(id)
    IN (Registered(it.parentId) /\ getIteration(it.parentId).parentId = NoId)
       => /\ Len(h) = 2
          /\ h[1].id = it.parentId
          /\ h[2].id = id

C6_HistoryStartsAtRoot ==
    \A id \in DOMAIN iterationStore :
        /\ Chain(id)
        /\ getIterationHistory(id)[1].parentId = NoId
        /\ TwoGenerations(id)

\* C6 amended: for every registered id, getIterationHistory(id) is
\* non-empty, ends with the iteration of that id, each element is the parent
\* of the next, and it begins with a root or with an iteration whose
\* parentId names no registered iteration; for a lineage root -> child with
\* both registered it has exactly 2 elements in that order.
C6_HistoryIsChain ==
    \A id \in DOMAIN iterationStore :
        /\ Chain(id)
        /\ LET first == getIterationHistory(id)[1]
           IN first.parentId = NoId \/ ~Registered(first.parentId)
        /\ TwoGenerations(id)

\* root and child both registered
C6_Witness ==
    \E id \in DOMAIN iterationStore :
        /\ Registered(getIteration(id).parentId)
        /\ getIteration(getIteration(id).parentId).parentId = NoId
        /\ Len(getIterationHistory(id)) = 2

\* -------------------------------------------------------------------
\* C7: after clearIterationStore(), getIteration(id) is not-found for every
\* id registered before the call, in every later state, also when
\* operations suspended at the call finish after it.  An iteration is
\* registered in the step that creates it and only clearIterationStore
\* removes keys, so the ids that were cleared are those created and absent.
C7_ClearedStaysCleared ==
    [][\A id \in Ids :
         (Created(id) /\ getIteration(id) = NoIteration)
         => getIteration(id)' = NoIteration]_vars

\* -------------------------------------------------------------------
\* C8: within a chunked run the collaborators are called in a fixed order:
\* outline, chunking, reconstruction of index 0, 1, ..., numChunks-1, each
\* once and each started only after the one before has returned, then
\* stitching once after the last chunk, with the chunk results in index order.
IsPipelineStep(e) == e.name \in PipelineCallees /\ e.kind \in {"call", "return"}

\* the calls to and returns from the pipeline's collaborators, in order
Pipeline(p) == SelectSeq(calls[p], IsPipelineStep)

\* what the k-th pipeline step must be, given the steps before it
InOrder(P, k) ==
    LET n == Len(P[4].arg)
        j == (k - 5) \div 2
    IN CASE k = 1 -> IsEv(P[k], "call", "extractGlobalSkeleton")
         [] k = 2 -> IsEv(P[k], "return", "extractGlobalSkeleton")
         [] k = 3 -> IsEv(P[k], "call", "smartChunk")
         [] k = 4 -> IsEv(P[k], "return", "smartChunk")
         [] k > 4 /\ k <= 4 + 2 * n /\ (k - 5) % 2 = 0 ->
                /\ IsEv(P[k], "call", "reconstructChunkConstrained")
                /\ P[k].index = j
                /\ P[k].total = n
                /\ P[k].arg = <<P[4].arg[j + 1]>>
         [] k > 4 /\ k <= 4 + 2 * n /\ (k - 5) % 2 = 1 ->
                /\ IsEv(P[k], "return", "reconstructChunkConstrained")
                /\ P[k].index = j
         [] k = 5 + 2 * n ->
                /\ IsEv(P[k], "call", "stitchAndValidate")
                /\ P[k].arg = [c \in 1..n |-> P[4 + 2 * c].arg[1]]
         [] k = 6 + 2 * n -> IsEv(P[k], "return", "stitchAndValidate")
         [] OTHER -> FALSE

C8_CollaboratorOrder ==
    \A p \in Ids : \A k \in 1..Len(Pipeline(p)) : InOrder(Pipeline(p), k)

\* stitching was handed two chunk results that differ
C8_Witness ==
    \E p \in Ids : \E k \in At(p, "call", "stitchAndValidate") :
        /\ Len(calls[p][k].arg) = 2
        /\ calls[p][k].arg[1].text # calls[p][k].arg[2].text

\* -------------------------------------------------------------------
\* C9: when all numChunks >= 1 reconstructions succeed there are exactly
\* numChunks - 1 pacing delays, each after chunk i has been processed and
\* before chunk i+1 is started, none before the first chunk or after the
\* last; a run that fails at chunk k has had exactly k delays.
Delays(p) == At(p, "call", "setTimeout")

\* numChunks, once smartChunk has returned
NumChunksOf(p) ==
    LET k == CHOOSE k \in At(p, "return", "smartChunk") : TRUE
    IN Len(calls[p][k].arg)

BetweenChunks(p, d) ==
    LET i == calls[p][d].index
    IN /\ calls[p][d].budget = PacingDelayMs
       /\ i < NumChunksOf(p) - 1
       /\ IsEv(calls[p][d - 1], "return", "reconstructChunkConstrained")
       /\ calls[p][d - 1].index = i
       /\ \A k \in At(p, "call", "reconstructChunkConstrained") :
            IF calls[p][k].index <= i THEN k < d ELSE k > d
       /\ \A e \in Delays(p) : calls[p][e].index = i => e = d

C9_PacingDelays ==
    \A p \in Ids :
        /\ \A d \in Delays(p) : BetweenChunks(p, d)
        /\ (At(p, "return", "smartChunk") # {} /\ NumChunksOf(p) >= 1
            /\ Count(p, "return", "reconstructChunkConstrained") = NumChunksOf(p))
           => Cardinality(Delays(p)) = NumChunksOf(p) - 1
        /\ \A t \in At(p, "throw", "reconstructChunkConstrained") :
             Cardinality(Delays(p)) = calls[p][t - 1].index

\* two chunks rewritten, one delay between them, stitching reached
C9_Witness ==
    \E p \in Ids :
        /\ Count(p, "return", "reconstructChunkConstrained") = 2
        /\ Cardinality(Delays(p)) = 1
        /\ Count(p, "call", "stitchAndValidate") = 1

\* -------------------------------------------------------------------
\* C10: every chunk reconstruction call of a run gets the same word budget,
\* ceil(lengthConfig.targetMid / numChunks), whatever the chunk's index,
\* the chunk's own size or the words rewritten so far.
TargetMidOf(p) ==
    LET k == CHOOSE k \in At(p, "return", "calculateLengthConfig") : TRUE
    IN calls[p][k].budget

\* b is the least integer with b * n >= x
IsCeilingOfQuotient(b, x, n) == b * n >= x /\ (b - 1) * n < x

C10_EqualBudget ==
    \A p \in Ids : \A k \in At(p, "call", "reconstructChunkConstrained") :
        IsCeilingOfQuotient(calls[p][k].budget, TargetMidOf(p), NumChunksOf(p))

\* chunks of different sizes, the second called after words were rewritten,
\* both with the budget ceil(7 / 2) = 4
C10_Witness ==
    \E p \in Ids : \E k, m \in At(p, "call", "reconstructChunkConstrained") :
        /\ calls[p][k].index = 0 /\ calls[p][m].index = 1
        /\ calls[p][k].arg # calls[p][m].arg
        /\ TargetMidOf(p) = 7
        /\ calls[p][k].budget = 4 /\ calls[p][m].budget = 4

\* -------------------------------------------------------------------
\* C11 as stated: with an explicit targetWordCount t the window handed to
\* calculateLengthConfig is t x 0.9 and t x 1.1 rounded to the nearest
\* integer ([2700, 3300] for 3000) whatever the instructions parse to; with
\* no explicit target it is the parsed window; with neither, both bounds are
\* unresolved.
RequestedTarget(p) ==
    LET k == CHOOSE k \in At(p, "request", "targetWordCount") : TRUE
    IN calls[p][k].budget

ParsedTargetOf(p) ==
    LET k == CHOOSE k \in At(p, "return", "parseTargetLength") : TRUE
    IN calls[p][k].arg[1]

\* n is an integer nearest to x / 10
IsNearestToTenths(n, x) == 10 * n - x <= 5 /\ x - 10 * n <= 5

AroundTarget(w, t) ==
    /\ IsNearestToTenths(w.targetMin, 9 * t)
    /\ IsNearestToTenths(w.targetMax, 11 * t)
    /\ (t = 3000 => w = Window(2700, 3300))

C11_WindowFromExplicitTarget ==
    \A p \in Ids : \A k \in At(p, "call", "calculateLengthConfig") :
        LET w == calls[p][k].arg[1]
            t == RequestedTarget(p)
        IN IF t # NoNumber THEN AroundTarget(w, t) ELSE w = ParsedTargetOf(p)

\* C11 amended: with an explicit targetWordCount t other than 0 the window is
\* t x 0.9 and t x 1.1 rounded to the nearest integer ([2700, 3300] for 3000)
\* whatever the instructions parse to; with no target, or a target of 0, each
\* bound is the parsed one, or unresolved when nothing was parsed or the
\* parsed bound is 0.
ParsedBound(b) == IF b = 0 THEN NoNumber ELSE b

C11_TargetWindow ==
    \A p \in Ids : \A k \in At(p, "call", "calculateLengthConfig") :
        LET w == calls[p][k].arg[1]
            t == RequestedTarget(p)
            parsed == ParsedTargetOf(p)
        IN IF t # NoNumber /\ t # 0
           THEN AroundTarget(w, t)
           ELSE /\ w.targetMin = ParsedBound(parsed.targetMin)
                /\ w.targetMax = ParsedBound(parsed.targetMax)
                /\ (parsed = NoParsed => w = Window(NoNumber, NoNumber))

\* 5000 words with a target of 3000 and instructions that parse to a window
C11_Witness ==
    \E p \in Ids : \E k \in At(p, "call", "calculateLengthConfig") :
        /\ countWords(iteration[p].inputText) = 5000
        /\ RequestedTarget(p) = 3000
        /\ ParsedTargetOf(p) = Window(90, 110)
        /\ calls[p][k].arg[1] = Window(2700, 3300)

\* -------------------------------------------------------------------
\* C12: when the observer throws at a notification (initializing, short-text
\* processing, skeleton, chunking, a chunk's, stitching, finalizing) the call
\* returns success = false with the iteration failed and its outputText
\* empty, and nothing is called afterwards.
ObserverThrew(p) == At(p, "throw", "onProgress")

C12_ObserverFailureFailsTheCall ==
    \A p \in Ids : \A k \in ObserverThrew(p) :
        /\ calls[p][k - 1].kind = "notify"
        /\ result[p].returned
        /\ result[p].success = FALSE
        /\ iteration[p].status = "failed"
        /\ iteration[p].outputText = EmptyText
        /\ k = Len(calls[p])

\* the observer threw at 'finalizing', after the stitcher had returned
C12_Witness ==
    \E p \in Ids : \E k \in ObserverThrew(p) :
        /\ calls[p][k - 1].name = "finalizing"
        /\ Count(p, "return", "stitchAndValidate") = 1
        /\ result[p].returned

\* -------------------------------------------------------------------
\* C13: when every awaited call and delay settles and the operations are
\* scheduled fairly, every started operation eventually returns with its
\* iteration 'completed' or 'failed'; none stays 'processing' forever.
HasReturned(p) ==
    result[p].returned /\ iteration[p].status \in {"completed", "failed"}

C13_EveryOperationReturns ==
    \A p \in Ids : Created(p) ~> HasReturned(p)

\* two operations in flight at once have both returned, the one that ran
\* all its chunks and the one that failed
C13_Witness ==
    \E p, q \in Ids :
        /\ HasReturned(p) /\ iteration[p].status = "completed"
        /\ iteration[p].globalSkeleton = Skeleton
        /\ HasReturned(q) /\ iteration[q].status = "failed"

\* -------------------------------------------------------------------
\* C14: a step of one operation changes no field of an iteration created by
\* another operation, and leaves every registry key in place, naming the
\* object it named before.
KeepsOthers(p) ==
    /\ \A q \in Ids \ {p} : iteration'[q] = iteration[q]
    /\ \A k \in DOMAIN iterationStore :
          /\ k \in DOMAIN iterationStore'
          /\ k # p => iterationStore'[k] = iterationStore[k]
    /\ DOMAIN iterationStore' \subseteq DOMAIN iterationStore \cup {p}

C14_WritesOnlyOwnEntry ==
    [][\A p \in Ids : Step(p, Interleaved) => KeepsOthers(p)]_vars

\* one operation has completed while another, started before it, is still
\* suspended in its chunk loop with its own entry untouched
C14_Witness ==
    \E p, q \in Ids :
        /\ p < q
        /\ frame[p].pc = "awaitDelay" /\ iteration[p].status = "processing"
        /\ iteration[p].globalSkeleton = Skeleton
        /\ result[q].returned /\ iteration[q].status = "completed"
        /\ getIteration(p) = iteration[p] /\ getIteration(q) = iteration[q]

IsRewriterOutput(p, text) ==
    \/ \E k \in At(p, "return", "messages.create") :
          text = Trim(calls[p][k].arg[1])
    \/ \E k \in At(p, "return", "stitchAndValidate") :
          text = calls[p][k].arg[1].finalOutput

OutputMatchesStatus(p) ==
    LET it == iteration[p]
    IN /\ it.status \in {"processing", "failed"}
            => /\ it.outputText = EmptyText
               /\ it.wordCount = countWords(it.inputText)
       /\ it.status = "completed"
            => /\ IsRewriterOutput(p, it.outputText)
               /\ it.wordCount = countWords(it.outputText)

C16_OutputMatchesStatus ==
    running = 0 => \A p \in Ids : OutputMatchesStatus(p)

\* -------------------------------------------------------------------
\* C17: getIterationHistory(id) terminates for every id in every registry
\* state: the parentId relation over registered iterations has no cycle, so
\* the walk ends within as many steps as there are entries; it stops at a
\* parent that is absent and returns the chain collected so far, and returns
\* the empty sequence for an id that is not registered.
RECURSIVE WalkEnds(_, _)
WalkEnds(current, fuel) ==
    IF ~Registered(current) THEN TRUE
    ELSE IF getIteration(current).parentId = NoId THEN TRUE
    ELSE IF fuel = 0 THEN FALSE
    ELSE WalkEnds(getIteration(current).parentId, fuel - 1)

StopsAtAbsentParent(id) ==
    LET h == getIterationHistory(id)
    IN IF ~Registered(id) THEN h = << >>
       ELSE /\ Chain(id)
            /\ \A k \in 1..Len(h) : Registered(h[k].id)
            /\ h[1].parentId = NoId \/ ~Registered(h[1].parentId)

C17_HistoryTerminates ==
    \A id \in Ids \cup {UnknownId} :
        /\ WalkEnds(id, Cardinality(DOMAIN iterationStore))
        /\ WalkEnds(id, Cardinality(DOMAIN iterationStore))
              => StopsAtAbsentParent(id)

\* a child is registered while the parent it was made from has been cleared:
\* the walk stops at the child
C17_Witness ==
    \E id \in DOMAIN iterationStore :
        /\ getIteration(id).parentId \in Ids
        /\ ~Registered(getIteration(id).parentId)
        /\ Len(getIterationHistory(id)) = 1

\* -------------------------------------------------------------------
\* C18: an iteration is registered, with status 'processing', before the
\* first notification and before any collaborator call; from then on its id
\* stays in the registry in every step that is not clearIterationStore, and
\* when the call returns, failed or not, getIteration finds the iteration.
RegisteredFirst(p) ==
    \A k \in 1..Len(calls[p]) :
        calls[p][k].kind \in {"notify", "call", "return", "throw"}
        => \E r \in At(p, "register", "iterationStore") : r < k

StaysRegistered ==
    \A id \in DOMAIN iterationStore :
        /\ id \in DOMAIN iterationStore'
        /\ iterationStore'[id] = iterationStore[id]

FoundAtReturn(p) ==
    (~result[p].returned /\ result'[p].returned)
    => /\ getIteration(p)' = iteration'[p]
       /\ iteration'[p].id = p

C18_RegistrationPersists ==
    /\ [](\A p \in Ids : RegisteredFirst(p))
    /\ [][\A p \in Ids :
             /\ (~Created(p) /\ Created(p)')
                  => (getIteration(p)' = iteration'[p]
                      /\ iteration'[p].status = "processing")
             /\ clearIterationStore \/ StaysRegistered
             /\ FoundAtReturn(p)]_vars

\* a call that failed in its chunk loop has returned and its iteration is
\* found in the registry, failed
C18_Witness ==
    \E p \in Ids :
        /\ result[p].returned /\ ~result[p].success
        /\ At(p, "throw", "reconstructChunkConstrained") # {}
        /\ getIteration(p).id = p
        /\ getIteration(p).status = "failed"

\* -------------------------------------------------------------------
\* C19: when smartChunk returns no chunks for an input of 1500 words or more
\* the call fails -- success = false, iteration 'failed' -- and the stitching
\* collaborator is not called with an empty list.
ZeroChunks(p) ==
    /\ countWords(iteration[p].inputText) >= 1500
    /\ \E k \in At(p, "return", "smartChunk") : Len(calls[p][k].arg) = 0

C19_ZeroChunksFail ==
    \A p \in Ids :
        ZeroChunks(p)
        => /\ Count(p, "call", "stitchAndValidate") = 0
           /\ result[p].returned
                => /\ result[p].success = FALSE
                   /\ iteration[p].status = "failed"

====
